---- MODULE Spec2Model ----
(***************************************************************************)
(* espeak-rs (src/src/lib.rs): the bridge between the process-global,      *)
(* callback-driven eSpeak NG engine and a pull-based sample stream.        *)
(*                                                                         *)
(* Threads of the model:                                                   *)
(*   - client threads: callers of Speaker::speak (one per request, which   *)
(*     afterwards consume the returned SpeakerSource) and callers of       *)
(*     list_voices;                                                        *)
(*   - one worker thread per request (thread::spawn in SpeakerSource::new).*)
(* The engine is a black box: what it returns and what it hands to the     *)
(* synthesis callback are inputs drawn from small sets.                    *)
(*                                                                         *)
(* Specifications:                                                         *)
(*   - Spec: two requests and one list_voices call, interleaved;           *)
(*   - SpecStream: one request over every text, in both build profiles,    *)
(*     whose caller may change its Speaker after speak();                  *)
(*   - SpecVoices: list_voices alone, over every native voice table.       *)
(***************************************************************************)
EXTENDS Integers, Sequences, FiniteSets, TLC

(***************************************************************************)
(* Bounds of the model                                                     *)
(***************************************************************************)
\* callback invocations the engine makes at most during one espeak_Synth
MaxCallbacks == 2
\* pulls a consumer still makes after a pull has returned no sample
MaxPullsAfterEnd == 1

\* speak() calls; request r is issued and consumed by client thread r
Requests == {1, 2}
\* client threads that call list_voices()
Listers == {3}
Clients == Requests \cup Listers

(***************************************************************************)
(* Option<T>: None is the empty sequence, Some(v) the one-element sequence *)
(***************************************************************************)
None == << >>
Some(v) == << v >>
IsSome(o) == o # << >>
Unwrap(o) == o[1]

(***************************************************************************)
(* Thread identities (owners of the ESPEAK_INIT mutex)                     *)
(***************************************************************************)
NoThread == << "none", 0 >>
Client(c) == << "client", c >>
Worker(r) == << "worker", r >>

(***************************************************************************)
(* u32 arithmetic of `audio_position * self.sample_rate / 1000`            *)
(* (lib.rs:366).  Both factors are u32 values that came from a C int, so   *)
(* each is below 2^31; the product is a u32 and wraps modulo 2^32 when     *)
(* overflow checks are off.  The operators work on 16-bit halves so that   *)
(* no intermediate value exceeds 2^31 - 1.                                 *)
(***************************************************************************)
Half == 65536
Hi16(x) == x \div Half
Lo16(x) == x % Half

\* low 16 bits and carry of Lo16(a) * Lo16(b)
LowProduct(a, b) ==
    LET al == Lo16(a)
        p0 == al * (Lo16(b) % 256)
        p1 == al * (Lo16(b) \div 256)
        low == p0 + (p1 % 256) * 256
    IN  [lo |-> low % Half, carry |-> (low \div Half) + (p1 \div 256)]

\* (a * b) mod 2^32 as the pair of its 16-bit halves
wrapping_mul(a, b) ==
    LET lp == LowProduct(a, b)
        cross == ((Hi16(a) * Lo16(b)) % Half) + ((Lo16(a) * Hi16(b)) % Half)
    IN  [hi |-> (lp.carry + cross) % Half, lo |-> lp.lo]

\* whether a * b does not fit in a u32: a > floor((2^32 - 1) / b)
mul_overflows(a, b) ==
    IF b = 0 THEN FALSE
    ELSE LET q == 2147483647 \div b          \* 2^31 = q * b + r + 1
             r == 2147483647 % b
             need == ((2 * r + 1) \div b) + 1 \* ceil((2 * r + 2) / b)
         IN  a - 2 * q >= need

\* (hi * 2^16 + lo) / 1000
DivThousand(w) == w.hi * 65 + ((w.hi * 536 + w.lo) \div 1000)

\* the threshold the cursor computes: (audio_position * sample_rate / 1000) as usize
at_sample(audio_position, rate) == DivThousand(wrapping_mul(audio_position, rate))

\* the mathematical floor(audio_position * rate / 1000), without wrapping
ExactPosition(audio_position, rate) ==
    audio_position * (rate \div 1000) + ((audio_position * (rate % 1000)) \div 1000)


(***************************************************************************)
(* Events (lib.rs:193-199) and the engine's native events                  *)
(***************************************************************************)
Start == [kind |-> "Start", a |-> 0, b |-> 0]
Word(start, len) == [kind |-> "Word", a |-> start, b |-> len]
Sentence(start) == [kind |-> "Sentence", a |-> start, b |-> 0]
End == [kind |-> "End", a |-> 0, b |-> 0]

\* an espeak_EVENT as the callback reads it: type_, text_position, length, audio_position
Native(type, text_position, length, audio_position) ==
    [type |-> type, text_position |-> text_position, length |-> length,
     audio_position |-> audio_position]
LIST_TERMINATED == Native("LIST_TERMINATED", 0, 0, 0)

\* an audio position (ms) whose product with the sample rate 22050 exceeds
\* 2^32 and wraps to 590
LatePosition == 1947831

\* what the engine hands to one callback invocation: the sample buffer (or a
\* null pointer) and an event list closed by the list terminator
Delivery(wav_null, wav, evs) == [wav_null |-> wav_null, wav |-> wav, events |-> evs]

\* 23 samples with the landmarks of a first sentence: three at 0 ms, one at 1 ms
FirstChunk ==
    Delivery(FALSE, [k \in 1..23 |-> 100 + k],
             << Native("SAMPLERATE", 0, 0, 0), Native("SENTENCE", 1, 0, 0),
                Native("WORD", 1, 5, 0), Native("WORD", 7, 5, 1), LIST_TERMINATED >>)
\* a null sample buffer with a landmark
NullChunk == Delivery(TRUE, << >>, << Native("WORD", 14, 7, 1), LIST_TERMINATED >>)
\* two samples, a landmark at 2 ms and an event of a kind the callback drops
ShortChunk ==
    Delivery(FALSE, << 12, 13 >>,
             << Native("WORD", 22, 5, 2), Native("END", 27, 0, 2), LIST_TERMINATED >>)
\* one sample with a landmark late in a long utterance
LateChunk ==
    Delivery(FALSE, << 14 >>, << Native("WORD", 30, 4, LatePosition), LIST_TERMINATED >>)
\* the closing invocation: no samples, no landmark
LastChunk ==
    Delivery(FALSE, << >>, << Native("MSG_TERMINATED", 0, 0, 0), LIST_TERMINATED >>)

EngineDeliveries == {FirstChunk, NullChunk, ShortChunk, LateChunk, LastChunk}

\* A text stands for what the engine makes of it: the deliveries of its
\* synthesis, one per callback invocation.
Texts == UNION { [1..n -> EngineDeliveries] : n \in 0..MaxCallbacks }
\* the texts of the requests that run concurrently
ShortTexts == { << ShortChunk >>, << NullChunk, ShortChunk >> }

\* native events of one list at most, its terminator apart
MaxEvents == 2

\* the native events of the lists the callback is checked on: every kind the
\* callback keeps, kinds it drops, text positions 0 and above, and the
\* terminator, after which the list may hold anything
NativeEvents ==
    { Native("SAMPLERATE", 0, 0, 0), Native("SENTENCE", 14, 0, 2), Native("SENTENCE", 0, 0, 0),
      Native("WORD", 7, 5, 2), Native("WORD", 0, 3, 1), Native("END", 27, 0, 2),
      LIST_TERMINATED }
NativeLists ==
    { l \o << LIST_TERMINATED >> : l \in UNION { [1..n -> NativeEvents] : n \in 0..MaxEvents } }

\* the sample buffers that go with them: null, no sample, two samples
NativeDeliveries ==
    { Delivery(TRUE, << >>, l) : l \in NativeLists }
    \cup { Delivery(FALSE, w, l) : w \in { << >>, << 5, 6 >> }, l \in NativeLists }

\* one of these deliveries alone, or followed by a further delivery
EventTexts ==
    { << d >> : d \in NativeDeliveries }
    \cup { << d, e >> : d \in NativeDeliveries, e \in {NullChunk, ShortChunk} }

\* the sample rate espeak_Initialize reports
EngineSampleRate == 22050

(***************************************************************************)
(* Parameter Sets (lib.rs:201-225) and the engine's parameter table        *)
(***************************************************************************)
Fields == {"rate", "volume", "pitch", "range", "punctuation", "capitals", "word_gap"}

\* SpeakerParams::new(): every field None, is_ssml false
SpeakerParams_new == [f \in Fields |-> None] @@ [is_ssml |-> FALSE]

\* the speaker configurations the requests are issued with
Speakers ==
    { [params |-> SpeakerParams_new, voice_name |-> ""],
      [params |-> [SpeakerParams_new EXCEPT !.rate = Some(80), !.pitch = Some(400),
                                            !.is_ssml = TRUE],
       voice_name |-> "French (Switzerland)"] }

\* a speaker whose voice name is not in the engine's catalog
UnknownVoiceSpeaker == [params |-> SpeakerParams_new, voice_name |-> "Klingon"]

\* the voice names the engine knows: the default "en" (lib.rs:283) and a
\* voice of the catalog (integration_test.rs:59)
EngineVoices == {"en", "French (Switzerland)"}

\* the engine's built-in defaults of the seven parameters
param_defaults ==
    [rate |-> 175, volume |-> 100, pitch |-> 50, range |-> 50,
     punctuation |-> 0, capitals |-> 0, word_gap |-> 0]


(***************************************************************************)
(* Voice records (lib.rs:100-175).  Native text is a sequence of bytes; a  *)
(* pointer is None (null) or Some(m), m being the bytes of the allocation  *)
(* from the pointer on.  A read past the last byte of m is out of bounds.  *)
(***************************************************************************)
\* entries parsed from one languages buffer at most
MaxLanguages == 2

\* index of the first zero byte of m at or after p; Len(m) + 1 when there is none
RECURSIVE find_nul(_, _)
find_nul(m, p) ==
    IF p > Len(m) THEN p
    ELSE IF m[p] = 0 THEN p ELSE find_nul(m, p + 1)

\* CStr::to_str succeeds: the bytes are UTF-8.  Sequences of one byte and of
\* two bytes are recognised; the native text of the model has no lead byte
\* of a longer sequence.
RECURSIVE valid_utf8(_)
valid_utf8(b) ==
    IF b = << >> THEN TRUE
    ELSE IF b[1] < 128 THEN valid_utf8(Tail(b))
    ELSE IF b[1] \in 194..223 /\ Len(b) >= 2 /\ b[2] \in 128..191
         THEN valid_utf8(Tail(Tail(b)))
         ELSE FALSE

\* the outcome of a conversion: "ok" with a value, "panic" (an unwrap failed)
\* or "out_of_bounds" (a read ran off the allocation)
Outcome(status, value) == [status |-> status, value |-> value]

\* `if p.is_null() { String::default() } else { CStr::from_ptr(p).to_str().unwrap() }`
\* (lib.rs:127-139)
string_from_ptr(ptr) ==
    IF ptr = None THEN Outcome("ok", << >>)
    ELSE LET m == Unwrap(ptr)
             e == find_nul(m, 1)
         IN  IF e > Len(m) THEN Outcome("out_of_bounds", << >>)
             ELSE IF ~valid_utf8(SubSeq(m, 1, e - 1)) THEN Outcome("panic", << >>)
             ELSE Outcome("ok", SubSeq(m, 1, e - 1))

\* `match v.gender` (lib.rs:143-147)
gender_of(g) == IF g = 1 THEN "Male" ELSE IF g = 2 THEN "Female" ELSE "NonBinary"

Language(priority, name) == [priority |-> priority, name |-> name]

\* variant: the pointer advances by the number of characters of the name
name_len_chars(name) == Cardinality({ k \in 1..Len(name) : name[k] \notin 128..191 })

\* `name.bytes().count()` (lib.rs:158)
name_len(name) == Len(name)

\* the `while *langs_ptr != 0` loop (lib.rs:151-164) with langs_ptr at index p
\* of the allocation m
RECURSIVE parse_languages(_, _)
parse_languages(m, p) ==
    IF p > Len(m) THEN Outcome("out_of_bounds", << >>)
    ELSE IF m[p] = 0 THEN Outcome("ok", << >>)
    ELSE LET priority == m[p]                           \* below 128: try_into() is the identity
             q == p + 1                                 \* langs_ptr.wrapping_add(1)
             e == find_nul(m, q)                        \* CStr::from_ptr(langs_ptr)
             name == SubSeq(m, q, e - 1)
         IN  IF e > Len(m) THEN Outcome("out_of_bounds", << >>)
             ELSE IF ~valid_utf8(name) THEN Outcome("panic", << >>)
             ELSE LET rest == parse_languages(m, q + name_len(name) + 1)
                  IN  Outcome(rest.status, << Language(priority, name) >> \o rest.value)

\* `if !v.languages.is_null() { ... }` (lib.rs:149-165)
languages_of(ptr) == IF ptr = None THEN Outcome("ok", << >>) ELSE parse_languages(Unwrap(ptr), 1)

\* an espeak_VOICE as from_espeak_voice reads it
NativeVoice(name, identifier, age, gender, languages) ==
    [name |-> name, identifier |-> identifier, age |-> age, gender |-> gender,
     languages |-> languages]

\* the first failure in evaluation order, "ok" when there is none
RECURSIVE first_failure(_)
first_failure(statuses) ==
    IF statuses = << >> THEN "ok"
    ELSE IF Head(statuses) # "ok" THEN Head(statuses) ELSE first_failure(Tail(statuses))

\* Voice::from_espeak_voice (lib.rs:126-174)
from_espeak_voice(v) ==
    LET name == string_from_ptr(v.name)
        identifier == string_from_ptr(v.identifier)
        languages == languages_of(v.languages)
    IN  Outcome(first_failure(<< name.status, identifier.status, languages.status >>),
                [name |-> name.value, identifier |-> identifier.value, age |-> v.age,
                 gender |-> gender_of(v.gender), languages |-> languages.value])

\* the `while !(*voice_arr).is_null()` loop of list_voices (lib.rs:183-187)
RECURSIVE convert_voices(_)
convert_voices(table) ==
    IF table = << >> THEN Outcome("ok", << >>)
    ELSE LET voice == from_espeak_voice(Head(table))
         IN  IF voice.status # "ok" THEN Outcome(voice.status, << >>)
             ELSE LET rest == convert_voices(Tail(table))
                  IN  Outcome(rest.status, << voice.value >> \o rest.value)

(***************************************************************************)
(* The native voice tables espeak_ListVoices may return                    *)
(***************************************************************************)
\* native text: "fr", "fr-ch", "roa/fr-CH", "Français" cut to its accented part
fr == << 102, 114 >>
fr_ch == << 102, 114, 45, 99, 104 >>
roa_fr_CH == << 114, 111, 97, 47, 102, 114, 45, 67, 72 >>
c_cedilla == << 195, 167 >>
\* bytes that are not UTF-8
not_utf8 == << 102, 255 >>

\* a NUL-terminated C string
CString(b) == b \o << 0 >>

\* the entries a languages buffer is packed from
LanguageEntries ==
    { Language(5, fr_ch), Language(8, fr), Language(2, c_cedilla), Language(1, << >>) }
LanguageLists == UNION { [1..n -> LanguageEntries] : n \in 0..MaxLanguages }

\* the packed form: per entry one priority byte and the NUL-terminated name
RECURSIVE pack(_)
pack(es) ==
    IF es = << >> THEN << >>
    ELSE << Head(es).priority >> \o CString(Head(es).name) \o pack(Tail(es))

\* what the allocation holds after the terminating zero priority byte
BufferTails == { << >>, << 7, 120, 0, 0 >> }
PackedBuffers == { pack(es) \o << 0 >> \o tail : es \in LanguageLists, tail \in BufferTails }

\* the record of integration_test.rs:59-70
FrenchSwitzerland ==
    NativeVoice(Some(CString(c_cedilla)), Some(CString(roa_fr_CH)), 0, 1,
                Some(pack(<< Language(5, fr_ch), Language(8, fr) >>) \o << 0 >>))

WellFormedVoices ==
    { NativeVoice(Some(CString(fr)), None, 30, 2, l) :
          l \in {None} \cup { Some(b) : b \in PackedBuffers } }
    \cup { FrenchSwitzerland, NativeVoice(None, Some(CString(fr)), 0, 0, None) }

\* records whose text is not UTF-8, and records whose languages buffer ends
\* before the name's NUL or before the terminating zero
MalformedVoices ==
    { NativeVoice(Some(CString(not_utf8)), None, 0, 1, None),
      NativeVoice(Some(CString(fr)), Some(CString(not_utf8)), 0, 1, None),
      NativeVoice(Some(CString(fr)), None, 0, 1, Some(<< 5 >> \o CString(not_utf8) \o << 0 >>)),
      NativeVoice(Some(CString(fr)), None, 0, 1, Some(<< 5 >> \o fr)),
      NativeVoice(Some(CString(fr)), None, 0, 1, Some(<< 5 >> \o CString(fr))) }

VoiceTables ==
    { << >> } \cup { << v >> : v \in WellFormedVoices \cup MalformedVoices }
    \cup { << FrenchSwitzerland, v >> : v \in MalformedVoices }

\* the tables of the runs in which requests are served as well
GoodTable == << FrenchSwitzerland, NativeVoice(Some(CString(fr)), None, 30, 2, None) >>
InvalidNameTable == << FrenchSwitzerland, NativeVoice(Some(CString(not_utf8)), None, 0, 1, None) >>

\* what a conversion that read out of bounds may have produced
Indeterminate == << "indeterminate" >>

(***************************************************************************)
(* State                                                                   *)
(***************************************************************************)
VARIABLES
    lock_owner,       \* the thread holding the ESPEAK_INIT mutex, or NoThread
    ESPEAK_INIT,      \* the u32 inside the mutex: 0, or the initialized sample rate
    poisoned,         \* the mutex is poisoned: a thread panicked while holding its guard
    overflow_checks,  \* build profile: TRUE = arithmetic overflow panics, FALSE = it wraps
    speaker,          \* per request: the Speaker (params, voice_name) speak() is called on
    text,             \* per request: the text, as the deliveries the engine makes of it
    voice_table,      \* the native voice table espeak_ListVoices returns
    \* the engine's process-global state
    init_calls,       \* how many times espeak_Initialize has been invoked
    first_rate,       \* the sample rate the first espeak_Initialize reported (0: none yet)
    param,            \* current value of each engine parameter
    voice,            \* the selected voice
    registered,       \* the registered synthesis callback
    user_data,        \* user_data of the espeak_Synth call in progress (0: none)
    flags,            \* flags of the last espeak_Synth call
    \* client threads
    pc,               \* position of each client thread
    init_ret,         \* what init() returned to each client (0: not returned yet)
    listed,           \* what list_voices() returned to each of its callers (None: not returned)
    \* worker threads
    wpc,              \* position of each worker
    closure,          \* what each worker's closure captured (None: not spawned)
    n_cb,             \* callback invocations during the worker's espeak_Synth so far
    cb_ret,           \* what the last callback invocation returned (-1: none yet)
    voice_ret,        \* what espeak_SetVoiceByName returned to the worker ("none": not called)
    \* the channel of each request
    chan,             \* units sent and not yet received
    tx_alive,         \* the Sender has not been dropped
    rx_alive,         \* the Receiver has not been dropped
    sent,             \* history: the units each worker's callback sent successfully
    \* the SpeakerSource of each request (lib.rs:269-275)
    sample_rate, data, events, iter_index,
    \* what the consumer of each request has observed
    result,           \* the pair the last next_sample_and_events returned
    out,              \* history: the samples returned so far
    delivered,        \* history: the events returned so far, with the index of the pull
    none_pulls,       \* how many pulls returned no sample
    recv_from,        \* history: the requests whose units this cursor received
    \* the same pulls as the two adapters turn them over to their consumers
    handled,          \* history: the events with_callback passed to its callback
    cb_out,           \* history: the samples with_callback returned
    pairs             \* history: the items iter_audio_and_events returned

lockVars == << lock_owner, ESPEAK_INIT, poisoned >>
buildVars == << overflow_checks, speaker, text, voice_table >>
engineVars == << init_calls, first_rate, param, voice, registered, user_data, flags >>
clientVars == << pc, init_ret, listed >>
workerVars == << wpc, closure, n_cb, cb_ret, voice_ret >>
chanVars == << chan, tx_alive, rx_alive, sent >>
cursorVars == << sample_rate, data, events, iter_index >>
seenVars == << result, out, delivered, none_pulls, recv_from, handled, cb_out, pairs >>
vars == << lockVars, buildVars, engineVars, clientVars, workerVars, chanVars,
           cursorVars, seenVars >>

NoResult == [sample |-> None, events |-> None]

\* the state after construction, but for the inputs
Fresh ==
    /\ lock_owner = NoThread
    /\ ESPEAK_INIT = 0
    /\ poisoned = FALSE
    /\ init_calls = 0
    /\ first_rate = 0
    /\ param = param_defaults
    /\ voice = ""
    /\ registered = "none"
    /\ user_data = 0
    /\ flags = {}
    /\ init_ret = [c \in Clients |-> 0]
    /\ listed = [c \in Listers |-> None]
    /\ wpc = [r \in Requests |-> "unspawned"]
    /\ closure = [r \in Requests |-> None]
    /\ n_cb = [r \in Requests |-> 0]
    /\ cb_ret = [r \in Requests |-> -1]
    /\ voice_ret = [r \in Requests |-> "none"]
    /\ chan = [r \in Requests |-> << >>]
    /\ tx_alive = [r \in Requests |-> TRUE]
    /\ rx_alive = [r \in Requests |-> TRUE]
    /\ sent = [r \in Requests |-> << >>]
    /\ sample_rate = [r \in Requests |-> 0]
    /\ data = [r \in Requests |-> << >>]
    /\ events = [r \in Requests |-> << >>]
    /\ iter_index = [r \in Requests |-> Some(0)]
    /\ result = [r \in Requests |-> NoResult]
    /\ out = [r \in Requests |-> << >>]
    /\ delivered = [r \in Requests |-> << >>]
    /\ none_pulls = [r \in Requests |-> 0]
    /\ recv_from = [r \in Requests |-> {}]
    /\ handled = [r \in Requests |-> << >>]
    /\ cb_out = [r \in Requests |-> << >>]
    /\ pairs = [r \in Requests |-> << >>]

\* every client calls; the requests differ in their speakers
Init ==
    /\ Fresh
    /\ overflow_checks = FALSE
    /\ speaker \in [Requests -> Speakers]
    /\ text \in [Requests -> ShortTexts]
    /\ voice_table \in {GoodTable, InvalidNameTable}
    /\ pc = [c \in Clients |-> "init"]

\* one request (and one list_voices call), over every text and both build
\* profiles, with a voice the engine knows or does not know
InitStream ==
    /\ Fresh
    /\ overflow_checks \in BOOLEAN
    /\ \E sp \in {[params |-> SpeakerParams_new, voice_name |-> ""], UnknownVoiceSpeaker} :
          speaker = [r \in Requests |-> sp]
    /\ \E t \in Texts : text = [r \in Requests |-> IF r = 1 THEN t ELSE << >>]
    /\ voice_table = GoodTable
    /\ pc = [c \in Clients |-> IF c = 2 THEN "unused" ELSE "init"]

(***************************************************************************)
(* PoisonlessLock::plock (lib.rs:557-563): blocks until the mutex is free  *)
(***************************************************************************)
\* Mutex::lock once the mutex is free: Err(PoisonError) when it is poisoned
lock_result(p) == IF p THEN "Err" ELSE "Ok"

\* variant: `self.lock().unwrap()`
plock_match_unwrap(res) == IF res = "Ok" THEN "guard" ELSE "panic"

\* `match self.lock() { Ok(lock) => lock, Err(e) => e.into_inner() }`
plock_match(res) == IF res = "Ok" THEN "guard" ELSE "guard"

\* variant: the lock is taken without waiting for its holder
plock_unguarded(t) == lock_owner' = t

plock(t) ==
    /\ lock_owner = NoThread
    /\ plock_match(lock_result(poisoned)) = "guard"
    /\ lock_owner' = t

\* dropping the MutexGuard
unlock == lock_owner' = NoThread

(***************************************************************************)
(* init() (lib.rs:84-99), called first by speak() and by list_voices()     *)
(***************************************************************************)
\* variant: no check of the stored sample rate
needs_initialize_always(v) == TRUE

\* `if *lock == 0`
needs_initialize(v) == v = 0

init_plock(c) ==
    /\ pc[c] = "init"
    /\ plock(Client(c))
    /\ pc' = [pc EXCEPT ![c] = "init_locked"]
    /\ UNCHANGED << ESPEAK_INIT, poisoned, buildVars, engineVars, init_ret, listed,
                    workerVars, chanVars,
                    cursorVars, seenVars >>

\* the body of init() under the lock, up to its return
init_body(c) ==
    /\ pc[c] = "init_locked"
    /\ IF needs_initialize(ESPEAK_INIT)
       THEN /\ ESPEAK_INIT' = EngineSampleRate          \* espeak_Initialize(...)
            /\ init_calls' = init_calls + 1
            /\ first_rate' = IF init_calls = 0 THEN EngineSampleRate ELSE first_rate
       ELSE UNCHANGED << ESPEAK_INIT, poisoned, init_calls, first_rate >>
    /\ init_ret' = [init_ret EXCEPT ![c] = ESPEAK_INIT']
    /\ unlock
    /\ pc' = [pc EXCEPT ![c] = IF c \in Requests THEN "spawn" ELSE "list_plock"]
    /\ UNCHANGED << poisoned, buildVars, param, voice, registered, user_data, flags, listed,
                    workerVars, chanVars, cursorVars, seenVars >>

(***************************************************************************)
(* list_voices() (lib.rs:177-191) after its init()                         *)
(***************************************************************************)
list_voices_plock(c) ==
    /\ pc[c] = "list_plock"
    /\ plock(Client(c))
    /\ pc' = [pc EXCEPT ![c] = "list_locked"]
    /\ UNCHANGED << ESPEAK_INIT, poisoned, buildVars, engineVars, init_ret, listed,
                    workerVars, chanVars,
                    cursorVars, seenVars >>

\* espeak_ListVoices and the conversion of its records (lib.rs:180-188), then
\* the guard is dropped: by the return, or by the unwinding of a panic, which
\* poisons the mutex.  A
\* conversion that reads out of bounds may end the process, panic on what it
\* read, or return what it read.
list_voices_body(c) ==
    /\ pc[c] = "list_locked"
    /\ LET converted == convert_voices(voice_table)
       IN  \E end \in IF converted.status = "ok" THEN {"done"}
                      ELSE IF converted.status = "panic" THEN {"panicked"}
                      ELSE {"crashed", "panicked", "done"} :
               /\ pc' = [pc EXCEPT ![c] = end]
               /\ listed' = [listed EXCEPT ![c] =
                                IF end # "done" THEN None
                                ELSE IF converted.status = "ok" THEN Some(converted.value)
                                ELSE Some(Indeterminate)]
               /\ poisoned' = IF end = "panicked" THEN TRUE ELSE poisoned
               /\ IF end = "crashed" THEN UNCHANGED lock_owner ELSE unlock
    /\ UNCHANGED << ESPEAK_INIT, buildVars, engineVars, init_ret, workerVars, chanVars,
                    cursorVars, seenVars >>


(***************************************************************************)
(* SpeakerSource::new (lib.rs:278-333) after its init(): spawns the worker *)
(* and returns the SpeakerSource                                           *)
(***************************************************************************)
\* the voice name passed to the engine (lib.rs:282-286)
voice_name_cstr(voice_name) == IF voice_name = "" THEN "en" ELSE voice_name

SpeakerSource_new(r) ==
    /\ pc[r] = "spawn"
    /\ wpc' = [wpc EXCEPT ![r] = "plock"]
    /\ closure' = [closure EXCEPT ![r] =
                      Some([params |-> speaker[r].params,
                                  \* self.params.clone()
                            voice_name_cstr |-> voice_name_cstr(speaker[r].voice_name)])]
    /\ sample_rate' = [sample_rate EXCEPT ![r] = init_ret[r]]
    /\ pc' = [pc EXCEPT ![r] = "idle"]
    /\ UNCHANGED << lockVars, buildVars, engineVars, init_ret, listed, n_cb, cb_ret,
                    voice_ret, chanVars, data, events, iter_index, seenVars >>

(***************************************************************************)
(* The engine's parameter interface, as SpeakerParams::apply_params calls  *)
(* it (lib.rs:231-232)                                                     *)
(***************************************************************************)
\* espeak_GetParameter(parameter, current): the parameter's current value when
\* `current` is not 0, its default when `current` is 0
espeak_GetParameter(table, f, current) ==
    IF current # 0 THEN table[f] ELSE param_defaults[f]

\* espeak_SetParameter(parameter, value, relative) with relative = 0
espeak_SetParameter(table, f, value) == [table EXCEPT ![f] = value]

\* variant: an unset field is left as the engine has it
apply_param_keep(table, f, value) ==
    IF IsSome(value) THEN espeak_SetParameter(table, f, Unwrap(value)) ELSE table

\* apply_param (lib.rs:228-235)
apply_param(table, f, value) ==
    IF IsSome(value)
    THEN espeak_SetParameter(table, f, Unwrap(value))
    ELSE espeak_SetParameter(table, f, espeak_GetParameter(table, f, 0))

\* apply_params (lib.rs:227-244): the seven fields, in the order of the source
ParamOrder == << "rate", "volume", "pitch", "range", "punctuation", "capitals", "word_gap" >>

RECURSIVE apply_from(_, _, _)
apply_from(table, p, k) ==
    IF k > Len(ParamOrder) THEN table
    ELSE apply_from(apply_param(table, ParamOrder[k], p[ParamOrder[k]]), p, k + 1)

apply_params(table, p) == apply_from(table, p, 1)

(***************************************************************************)
(* The worker closure (lib.rs:289-324)                                     *)
(***************************************************************************)
\* variant: the closure borrows the Speaker instead of owning copies
captured_by_ref(r) ==
    [params |-> speaker[r].params, voice_name_cstr |-> voice_name_cstr(speaker[r].voice_name)]

\* `move ||`: the closure owns params and voice_name_cstr
captured(r) == Unwrap(closure[r])

\* lib.rs:291-295
synth_flags(params) ==
    IF params.is_ssml THEN {"espeakSSML", "espeakCHARS_AUTO"} ELSE {"espeakCHARS_AUTO"}

\* `let _lock = ESPEAK_INIT.plock();`
worker_plock(r) ==
    /\ wpc[r] = "plock"
    /\ plock(Worker(r))
    /\ wpc' = [wpc EXCEPT ![r] = "apply_params"]
    /\ UNCHANGED << ESPEAK_INIT, poisoned, buildVars, engineVars, clientVars, closure,
                    n_cb, cb_ret, voice_ret,
                    chanVars, cursorVars, seenVars >>

\* `params.apply_params();`
worker_apply_params(r) ==
    /\ wpc[r] = "apply_params"
    /\ param' = apply_params(param, captured(r).params)
    /\ wpc' = [wpc EXCEPT ![r] = "SetVoiceByName"]
    /\ UNCHANGED << lockVars, buildVars, init_calls, first_rate, voice, registered,
                    user_data, flags, clientVars, closure, n_cb, cb_ret, voice_ret,
                    chanVars, cursorVars, seenVars >>

\* espeak_SetVoiceByName(name): the engine selects the voice and reports EE_OK
\* when it knows the name; otherwise it keeps its voice and reports EE_NOT_FOUND
espeak_SetVoiceByName(name) == IF name \in EngineVoices THEN "EE_OK" ELSE "EE_NOT_FOUND"

\* `espeak_SetVoiceByName(voice_name_cstr.as_ptr())` (lib.rs:299-301): the
\* statement ends with `;`, what the engine returned is not looked at
worker_SetVoiceByName(r) ==
    /\ wpc[r] = "SetVoiceByName"
    /\ LET name == captured(r).voice_name_cstr
           ret == espeak_SetVoiceByName(name)
       IN  /\ voice' = IF ret = "EE_OK" THEN name ELSE voice
           /\ voice_ret' = [voice_ret EXCEPT ![r] = ret]
    /\ wpc' = [wpc EXCEPT ![r] = "SetSynthCallback"]
    /\ UNCHANGED << lockVars, buildVars, init_calls, first_rate, param, registered,
                    user_data, flags, clientVars, closure, n_cb, cb_ret, chanVars,
                    cursorVars, seenVars >>

\* `espeak_SetSynthCallback(Some(Self::synth_callback))`
worker_SetSynthCallback(r) ==
    /\ wpc[r] = "SetSynthCallback"
    /\ registered' = "synth_callback"
    /\ wpc' = [wpc EXCEPT ![r] = "Synth"]
    /\ UNCHANGED << lockVars, buildVars, init_calls, first_rate, param, voice,
                    user_data, flags, clientVars, closure, n_cb, cb_ret, voice_ret,
                    chanVars, cursorVars, seenVars >>

\* variant: one Sender shared by every worker
tx_ptr_shared(r) == 1

\* `let tx_ptr = &mut tx as *mut _ as *mut c_void` (lib.rs:297): the worker's own Sender
tx_ptr(r) == r

\* the call of espeak_Synth(text, ..., flags, identifier, tx_ptr): the engine
\* keeps the user_data for the events of this synthesis
worker_Synth(r) ==
    /\ wpc[r] = "Synth"
    /\ user_data' = tx_ptr(r)
    /\ flags' = synth_flags(captured(r).params)
    /\ wpc' = [wpc EXCEPT ![r] = "in_Synth"]
    /\ UNCHANGED << lockVars, buildVars, init_calls, first_rate, param, voice,
                    registered, clientVars, closure, n_cb, cb_ret, voice_ret, chanVars,
                    cursorVars, seenVars >>

(***************************************************************************)
(* SpeakerSource::synth_callback (lib.rs:394-444)                          *)
(***************************************************************************)
saturating_sub(x, y) == IF x >= y THEN x - y ELSE 0

\* variant: the text position is passed on as the engine reports it
map_event_as_reported(e) ==
    CASE e.type = "SAMPLERATE" -> Some(Start)
      [] e.type = "WORD" -> Some(Word(e.text_position, e.length))
      [] e.type = "SENTENCE" -> Some(Sentence(e.text_position))
      [] OTHER -> None

\* the `match` on the native event's type (lib.rs:403-420)
map_event(e) ==
    CASE e.type = "SAMPLERATE" -> Some(Start)
      [] e.type = "WORD" -> Some(Word(saturating_sub(e.text_position, 1), e.length))
      [] e.type = "SENTENCE" -> Some(Sentence(saturating_sub(e.text_position, 1)))
      [] OTHER -> None

\* the scan of the native list up to its terminator (lib.rs:399-427)
RECURSIVE map_events(_)
map_events(evs) ==
    IF evs = << >> \/ Head(evs).type = "LIST_TERMINATED" THEN << >>
    ELSE LET evt == map_event(Head(evs))
         IN  (IF IsSome(evt)
              THEN << [pos |-> Head(evs).audio_position, event |-> Unwrap(evt)] >>
              ELSE << >>) \o map_events(Tail(evs))

\* the copy of the sample buffer (lib.rs:432-439)
wav_vec(d) == IF d.wav_null THEN << >> ELSE d.wav

\* variant: the result of the send is ignored
send_result_continue(ok) == 0

\* `match tx.send(...) { Err(_) => 1, Ok(_) => 0 }` (lib.rs:440-443)
send_result(ok) == IF ok THEN 0 ELSE 1

\* variant: a channel of capacity one (sync_channel(1)), whose send waits
\* while a unit is queued and the Receiver is alive
send_waits_bounded(tx) == chan[tx] # << >> /\ rx_alive[tx]

\* `channel::<...>()` (lib.rs:279): the channel is unbounded and Sender::send
\* (lib.rs:440) never waits
send_waits(tx) == FALSE

\* one invocation of the registered callback by the engine inside worker r's
\* espeak_Synth; the Sender is found through the events' user_data
synth_callback(r) ==
    /\ wpc[r] = "in_Synth"
    /\ registered = "synth_callback"
    /\ n_cb[r] < Len(text[r])
    /\ cb_ret[r] # 1
    /\ ~send_waits(user_data)
    /\ LET d == text[r][n_cb[r] + 1]
             unit == [wav |-> wav_vec(d), events |-> map_events(d.events), from |-> r]
           ok == rx_alive[user_data]
           tx == user_data
       IN  /\ chan' = IF ok THEN [chan EXCEPT ![tx] = Append(@, unit)] ELSE chan
           /\ sent' = IF ok THEN [sent EXCEPT ![r] = Append(@, unit)] ELSE sent
           /\ cb_ret' = [cb_ret EXCEPT ![r] = send_result(ok)]
    /\ n_cb' = [n_cb EXCEPT ![r] = @ + 1]
    /\ UNCHANGED << lockVars, buildVars, engineVars, clientVars, wpc, closure,
                    voice_ret, tx_alive,
                    rx_alive, cursorVars, seenVars >>

\* espeak_Synth returns: the text is finished, or the callback returned 1
espeak_Synth_returns(r) ==
    /\ wpc[r] = "in_Synth"
    /\ n_cb[r] = Len(text[r]) \/ cb_ret[r] = 1
    /\ wpc' = [wpc EXCEPT ![r] = "Synth_returned"]
    /\ user_data' = 0
    /\ UNCHANGED << lockVars, buildVars, init_calls, first_rate, param, voice,
                    registered, flags, clientVars, closure, n_cb, cb_ret, voice_ret,
                    chanVars, cursorVars, seenVars >>

\* the closure ends: its locals are dropped, the MutexGuard among them
worker_unlock(r) ==
    /\ wpc[r] = "Synth_returned"
    /\ unlock
    /\ wpc' = [wpc EXCEPT ![r] = "unlocked"]
    /\ UNCHANGED << ESPEAK_INIT, poisoned, buildVars, engineVars, clientVars, closure,
                    n_cb, cb_ret, voice_ret,
                    chanVars, cursorVars, seenVars >>

\* then the captured Sender is dropped
worker_drop_tx(r) ==
    /\ wpc[r] = "unlocked"
    /\ tx_alive' = [tx_alive EXCEPT ![r] = FALSE]
    /\ wpc' = [wpc EXCEPT ![r] = "done"]
    /\ UNCHANGED << lockVars, buildVars, engineVars, clientVars, closure, n_cb, cb_ret,
                    voice_ret,
                    chan, rx_alive, sent, cursorVars, seenVars >>


(***************************************************************************)
(* SpeakerSource::next_sample_and_events (lib.rs:349-390)                  *)
(***************************************************************************)
\* variant: the buffer is replaced instead of extended
append_replace(v, w) == w

\* Vec::append
append(v, w) == v \o w

\* variant: an event that is not yet due is skipped and the scan goes on
RECURSIVE scan_events_skip(_, _, _)
scan_events_skip(evs, i, rate) ==
    IF evs = << >> THEN [due |-> << >>, rest |-> << >>, overflow |-> FALSE]
    ELSE LET first == Head(evs)
             s == scan_events_skip(Tail(evs), i, rate)
             over == mul_overflows(first.pos, rate) \/ s.overflow
         IN  IF at_sample(first.pos, rate) > i
             THEN [due |-> s.due, rest |-> << first >> \o s.rest, overflow |-> over]
             ELSE [due |-> << first >> \o s.due, rest |-> s.rest, overflow |-> over]

\* `while let Some((audio_position, _)) = self.events.first()` (lib.rs:364-372):
\* the events removed from the queue, the events left in it, and whether one
\* of the products that were computed overflowed
RECURSIVE scan_events(_, _, _)
scan_events(evs, i, rate) ==
    IF evs = << >> THEN [due |-> << >>, rest |-> << >>, overflow |-> FALSE]
    ELSE LET first == Head(evs)
             over == mul_overflows(first.pos, rate)
         IN  IF at_sample(first.pos, rate) > i
             THEN [due |-> << >>, rest |-> evs, overflow |-> over]
             ELSE LET s == scan_events(Tail(evs), i, rate)
                  IN  [due |-> << first >> \o s.due, rest |-> s.rest,
                       overflow |-> over \/ s.overflow]

\* variant: the next unit is fetched while one buffered sample is left
needs_recv_ahead(i, d) == i + 1 >= Len(d)

\* `while i >= self.data.len()` (lib.rs:353)
needs_recv(i, d) == i >= Len(d)

\* variant: a receive that does not wait (try_recv)
recv_empty(r) == chan[r] = << >>

\* `rx.recv()` returns Err: nothing is queued and the Sender is gone
recv_disconnected(r) == chan[r] = << >> /\ ~tx_alive[r]

\* variant: the index moves past the sample after the one returned
next_index_skip(i) == Some(i + 2)

\* `self.iter_index = Some(i + 1usize)` (lib.rs:375)
next_index(i) == Some(i + 1)

\* the events of a pull as the histories record them
Stamp(evs, i) == [k \in 1..Len(evs) |-> [at |-> i, pos |-> evs[k].pos, event |-> evs[k].event]]
EventsOf(evs) == [k \in 1..Len(evs) |-> evs[k].event]

\* lib.rs:364-388: the pull at index i ends with the buffers d (samples) and
\* e (pending events); an overflowing product panics when overflow checks are
\* on, which unwinds the consumer and drops the Receiver
finish_pull(r, i, d, e) ==
    LET s == scan_events(e, i, sample_rate[r])
    IN  IF s.overflow /\ overflow_checks
        THEN /\ pc' = [pc EXCEPT ![r] = "panicked"]
             /\ rx_alive' = [rx_alive EXCEPT ![r] = FALSE]
             /\ data' = [data EXCEPT ![r] = d]
             /\ events' = [events EXCEPT ![r] = e]
             /\ UNCHANGED << iter_index, result, out, delivered, none_pulls >>
        ELSE /\ pc' = [pc EXCEPT ![r] = "idle"]
             /\ data' = [data EXCEPT ![r] = d]
             /\ events' = [events EXCEPT ![r] = s.rest]
             /\ delivered' = [delivered EXCEPT ![r] = @ \o Stamp(s.due, i)]
             /\ IF i < Len(d)
                THEN /\ iter_index' = [iter_index EXCEPT ![r] = next_index(i)]
                     /\ out' = [out EXCEPT ![r] = Append(@, d[i + 1])]
                     /\ result' = [result EXCEPT ![r] =
                           [sample |-> Some(d[i + 1]),
                            events |-> IF s.due = << >> THEN None ELSE Some(EventsOf(s.due))]]
                     /\ UNCHANGED none_pulls
                ELSE /\ result' = [result EXCEPT ![r] =
                           [sample |-> None,
                            events |-> IF s.due = << >> THEN None ELSE Some(EventsOf(s.due))]]
                     /\ none_pulls' = [none_pulls EXCEPT ![r] = @ + 1]
                     /\ UNCHANGED << iter_index, out >>
             /\ UNCHANGED rx_alive

(***************************************************************************)
(* The adapters (lib.rs:478-551): each next() makes one call of            *)
(* inner.next_sample_and_events() and works on the pair it returned        *)
(***************************************************************************)
\* SpeakerSourceWithCallback::next (lib.rs:513-526): the events passed to the
\* callback, one call each, and the item returned
WithCallback_calls(res) == IF res.events = None THEN << >> ELSE Unwrap(res.events)
WithCallback_next(res) == res.sample

\* variant: an item only when the pull carries events
IterAudioAndEvents_next_if_events(res) ==
    IF res.sample = None \/ res.events = None THEN None
    ELSE Some([sample |-> Unwrap(res.sample), events |-> res.events])

\* IterAudioAndEvents::next (lib.rs:539-546)
IterAudioAndEvents_next(res) ==
    IF res.sample = None THEN None
    ELSE Some([sample |-> Unwrap(res.sample), events |-> res.events])

\* what the adapters make of the pull of r, once it has returned
adapters_next(r) ==
    IF pc'[r] = "idle"
    THEN /\ handled' = [handled EXCEPT ![r] = @ \o WithCallback_calls(result'[r])]
         /\ cb_out' = [cb_out EXCEPT ![r] = @ \o WithCallback_next(result'[r])]
         /\ pairs' = [pairs EXCEPT ![r] = @ \o IterAudioAndEvents_next(result'[r])]
    ELSE UNCHANGED << handled, cb_out, pairs >>

\* impl Source (lib.rs:447-463, 485-504): SpeakerSourceWithCallback takes every
\* answer from its inner SpeakerSource; IterAudioAndEvents is an Iterator only
SourceImpls == {"SpeakerSource", "SpeakerSourceWithCallback"}
StreamTypes == SourceImpls \cup {"IterAudioAndEvents"}

\* variant: the rate follows the position of the cursor
Source_sample_rate_at_index(r) == sample_rate[r] + Unwrap(iter_index[r])

\* `self.sample_rate` (lib.rs:456-458)
Source_sample_rate(r) == sample_rate[r]

\* lib.rs:452-454 and 460-462
Source_channels == 1
Source_total_duration == None

\* sample_rate(), channels(), total_duration() of a stream of type ty over
\* request r; None where the type has no such method
sample_rate_of(ty, r) == IF ty \in SourceImpls THEN Some(Source_sample_rate(r)) ELSE None
channels_of(ty) == IF ty \in SourceImpls THEN Some(Source_channels) ELSE None
total_duration_of(ty) == IF ty \in SourceImpls THEN Some(Source_total_duration) ELSE None

\* a pull begins: the terminal arm, or the index is buffered and the pull
\* completes, or the pull blocks in rx.recv()
next_call(r) ==
    /\ pc[r] = "idle"
    /\ none_pulls[r] <= MaxPullsAfterEnd
    /\ IF iter_index[r] = None
       THEN /\ result' = [result EXCEPT ![r] = NoResult]
            /\ none_pulls' = [none_pulls EXCEPT ![r] = @ + 1]
            /\ UNCHANGED << pc, rx_alive, data, events, iter_index, out, delivered >>
       ELSE LET i == Unwrap(iter_index[r])
            IN  IF needs_recv(i, data[r])
                THEN /\ pc' = [pc EXCEPT ![r] = "recv"]
                     /\ UNCHANGED << rx_alive, data, events, iter_index, result, out,
                                     delivered, none_pulls >>
                ELSE finish_pull(r, i, data[r], events[r])
    /\ adapters_next(r)
    /\ UNCHANGED << lockVars, buildVars, engineVars, init_ret, listed, workerVars, chan,
                    tx_alive, sent, sample_rate, recv_from >>

\* rx.recv() returns inside the `while i >= self.data.len()` loop
next_recv(r) ==
    /\ pc[r] = "recv"
    /\ LET i == Unwrap(iter_index[r])
       IN  \/ /\ chan[r] # << >>                        \* Ok((wav_vec, events_vec))
              /\ LET unit == Head(chan[r])
                     d == append(data[r], unit.wav)
                     e == append(events[r], unit.events)
                 IN  /\ chan' = [chan EXCEPT ![r] = Tail(@)]
                     /\ recv_from' = [recv_from EXCEPT ![r] = @ \cup {unit.from}]
                     /\ IF needs_recv(i, d)
                        THEN /\ data' = [data EXCEPT ![r] = d]
                             /\ events' = [events EXCEPT ![r] = e]
                             /\ UNCHANGED << pc, rx_alive, iter_index, result, out,
                                             delivered, none_pulls >>
                        ELSE finish_pull(r, i, d, e)
           \/ /\ recv_disconnected(r)                   \* Err(_)
              /\ result' = [result EXCEPT ![r] = [sample |-> None, events |-> Some(<< End >>)]]
              /\ delivered' = [delivered EXCEPT ![r] =
                                  Append(@, [at |-> i, pos |-> 0, event |-> End])]
              /\ none_pulls' = [none_pulls EXCEPT ![r] = @ + 1]
              /\ pc' = [pc EXCEPT ![r] = "idle"]
              /\ UNCHANGED << chan, recv_from, rx_alive, data, events, iter_index, out >>
    /\ adapters_next(r)
    /\ UNCHANGED << lockVars, buildVars, engineVars, init_ret, listed, workerVars,
                    tx_alive, sent, sample_rate >>

\* the consumer drops the stream (and with it the Receiver) between two pulls
drop_source(r) ==
    /\ pc[r] = "idle"
    /\ pc' = [pc EXCEPT ![r] = "dropped"]
    /\ rx_alive' = [rx_alive EXCEPT ![r] = FALSE]
    /\ UNCHANGED << lockVars, buildVars, engineVars, init_ret, listed, workerVars, chan,
                    tx_alive, sent, cursorVars, seenVars >>

(***************************************************************************)
(* The caller changes its Speaker after speak() has returned               *)
(***************************************************************************)
\* `speaker.params.rate = Some(400)` (integration_test.rs:33), and SSML
assign_params(r) ==
    /\ pc[r] = "idle"
    /\ speaker' = [speaker EXCEPT ![r].params.rate = Some(400), ![r].params.is_ssml = TRUE]
    /\ UNCHANGED << lockVars, overflow_checks, text, voice_table, engineVars, clientVars,
                    workerVars, chanVars, cursorVars, seenVars >>

\* Speaker::set_voice (lib.rs:264-266) with a Voice the engine does not know
set_voice(r) ==
    /\ pc[r] = "idle"
    /\ speaker' = [speaker EXCEPT ![r].voice_name = UnknownVoiceSpeaker.voice_name]
    /\ UNCHANGED << lockVars, overflow_checks, text, voice_table, engineVars, clientVars,
                    workerVars, chanVars, cursorVars, seenVars >>

(***************************************************************************)
(* The specification                                                       *)
(***************************************************************************)
Next ==
    \/ \E c \in Clients : init_plock(c) \/ init_body(c)
    \/ \E c \in Listers : list_voices_plock(c) \/ list_voices_body(c)
    \/ \E r \in Requests :
         \/ SpeakerSource_new(r)
         \/ worker_plock(r)
         \/ worker_apply_params(r)
         \/ worker_SetVoiceByName(r)
         \/ worker_SetSynthCallback(r)
         \/ worker_Synth(r)
         \/ synth_callback(r)
         \/ espeak_Synth_returns(r)
         \/ worker_unlock(r)
         \/ worker_drop_tx(r)
         \/ next_call(r)
         \/ next_recv(r)
         \/ drop_source(r)

Spec == Init /\ [][Next]_vars

\* the caller of the one request may also change its Speaker once speak()
\* has returned
NextStream ==
    \/ Next
    \/ \E r \in Requests : assign_params(r) \/ set_voice(r)

SpecStream == InitStream /\ [][NextStream]_vars

\* list_voices() alone, over every native voice table
InitVoices ==
    /\ Fresh
    /\ overflow_checks = FALSE
    /\ speaker = [r \in Requests |-> [params |-> SpeakerParams_new, voice_name |-> ""]]
    /\ text = [r \in Requests |-> << >>]
    /\ voice_table \in VoiceTables
    /\ pc = [c \in Clients |-> IF c \in Listers THEN "init" ELSE "unused"]

NextVoices ==
    \E c \in Listers :
        init_plock(c) \/ init_body(c) \/ list_voices_plock(c) \/ list_voices_body(c)

SpecVoices == InitVoices /\ [][NextVoices]_vars

\* the steps of the calls and of the worker closures: every step of Next but
\* those of the consumers
Progress ==
    \/ \E c \in Clients : init_plock(c) \/ init_body(c)
    \/ \E c \in Listers : list_voices_plock(c) \/ list_voices_body(c)
    \/ \E r \in Requests :
         \/ SpeakerSource_new(r)
         \/ worker_plock(r)
         \/ worker_apply_params(r)
         \/ worker_SetVoiceByName(r)
         \/ worker_SetSynthCallback(r)
         \/ worker_Synth(r)
         \/ synth_callback(r)
         \/ espeak_Synth_returns(r)
         \/ worker_unlock(r)
         \/ worker_drop_tx(r)

\* Scheduling: while some thread can take a step of a call or of a worker
\* closure, one such step is eventually taken (threads run, the engine's
\* calls return, a free mutex is handed to a thread waiting for it).  Nothing
\* is assumed of the consumers: a stream may be pulled, dropped or left alone.
Fairness == WF_vars(Progress)

\* two requests and one list_voices call, over the texts of one and of two
\* callback invocations, with an empty voice table or one whose record makes
\* list_voices panic with the lock
InitLive ==
    /\ Fresh
    /\ overflow_checks = FALSE
    /\ speaker = [r \in Requests |-> [params |-> SpeakerParams_new, voice_name |-> ""]]
    /\ text \in [Requests -> ShortTexts]
    /\ voice_table \in { << >>, << NativeVoice(Some(CString(not_utf8)), None, 0, 1, None) >> }
    /\ pc = [c \in Clients |-> "init"]

SpecLive == InitLive /\ [][Next]_vars /\ Fairness

\* the synthesis callback alone, over every native event list: one request,
\* whose consumer does not pull and may drop the stream
InitEvents ==
    /\ Fresh
    /\ overflow_checks = FALSE
    /\ speaker = [r \in Requests |-> [params |-> SpeakerParams_new, voice_name |-> ""]]
    /\ \E t \in EventTexts : text = [r \in Requests |-> IF r = 1 THEN t ELSE << >>]
    /\ voice_table = GoodTable
    /\ pc = [c \in Clients |-> IF c = 1 THEN "init" ELSE "unused"]

NextEvents ==
    \E r \in Requests :
        \/ init_plock(r)
        \/ init_body(r)
        \/ SpeakerSource_new(r)
        \/ worker_plock(r)
        \/ worker_apply_params(r)
        \/ worker_SetVoiceByName(r)
        \/ worker_SetSynthCallback(r)
        \/ worker_Synth(r)
        \/ synth_callback(r)
        \/ espeak_Synth_returns(r)
        \/ worker_unlock(r)
        \/ worker_drop_tx(r)
        \/ drop_source(r)

SpecEvents == InitEvents /\ [][NextEvents]_vars


(***************************************************************************)
(* Properties                                                              *)
(***************************************************************************)
RECURSIVE Flat(_)
Flat(ss) == IF ss = << >> THEN << >> ELSE Head(ss) \o Flat(Tail(ss))

\* the samples and the events worker r sent, in send order
SentSamples(r) == Flat([k \in 1..Len(sent[r]) |-> sent[r][k].wav])
SentEvents(r) == Flat([k \in 1..Len(sent[r]) |-> EventsOf(sent[r][k].events)])
\* the events the consumer of r was handed, in order
DeliveredEvents(r) == [k \in 1..Len(delivered[r]) |-> delivered[r][k].event]

\* positions at which a thread is about to make, or is inside, an engine call
ClientEngineSteps == {"init_locked", "list_locked"}
WorkerEngineSteps ==
    {"apply_params", "SetVoiceByName", "SetSynthCallback", "Synth", "in_Synth",
     "Synth_returned"}
InEngine ==
    { Client(c) : c \in { x \in Clients : pc[x] \in ClientEngineSteps } }
    \cup { Worker(r) : r \in { x \in Requests : wpc[x] \in WorkerEngineSteps } }

\* C1: every engine call is made by the holder of the ESPEAK_INIT lock, a worker
\* holds the lock from before its first engine call until espeak_Synth has
\* returned, and so at most one thread is inside engine code at a time.
C1_EngineSerialized ==
    /\ \A t \in InEngine : lock_owner = t
    /\ Cardinality(InEngine) <= 1

\* a worker is inside espeak_Synth after a callback while the other worker and
\* the list_voices caller wait for the lock
C1_Witness ==
    \E r \in Requests, q \in Requests :
        /\ r # q
        /\ wpc[r] = "in_Synth" /\ n_cb[r] >= 1
        /\ wpc[q] = "plock"
        /\ \E c \in Listers : pc[c] = "list_plock"

\* C2: during a request's espeak_Synth every field the request left unset has
\* the engine's default value, whatever earlier requests set.
C2_NoParameterLeak ==
    \A r \in Requests :
        wpc[r] = "in_Synth" =>
            \A f \in Fields :
                captured(r).params[f] = None => param[f] = param_defaults[f]

\* a request with rate unset synthesizes after a request that set the rate
C2_Witness ==
    \E r \in Requests, q \in Requests :
        /\ r # q
        /\ wpc[q] = "done" /\ IsSome(captured(q).params["rate"])
        /\ wpc[r] = "in_Synth" /\ n_cb[r] >= 1
        /\ captured(r).params["rate"] = None

\* C3: every Start, Word or Sentence event handed to the consumer in the pull
\* at sample index i has floor(audio_position_ms * sample_rate / 1000) <= i.
C3_NotBeforeSample ==
    \A r \in Requests :
        \A k \in 1..Len(delivered[r]) :
            delivered[r][k].event.kind # "End" =>
                ExactPosition(delivered[r][k].pos, sample_rate[r]) <= delivered[r][k].at

\* C4: when the first pull has returned None, the consumer has been handed
\* every event the worker sent, once and in send order, followed by one End.
C4_EveryEventHandled ==
    \A r \in Requests :
        none_pulls[r] = 1 => DeliveredEvents(r) = SentEvents(r) \o << End >>

\* C5: once a pull has returned no sample, every later pull returns no sample.
C5_EndIsStable ==
    [][\A r \in Requests :
          none_pulls[r] >= 1 => (result'[r].sample = None /\ out'[r] = out[r])]_vars

\* the consumer has pulled again after the end of a stream that had samples
C5_Witness ==
    \E r \in Requests : none_pulls[r] >= 2 /\ Len(out[r]) >= 2 /\ wpc[r] = "done"

\* C6: when the channel is found closed the cursor becomes terminal
\* (iter_index = None) and reports (None, [End]); every later pull returns
\* (None, None), so End is produced once per stream.
C6_EndOnce ==
    \A r \in Requests :
        /\ none_pulls[r] >= 1 => iter_index[r] = None
        /\ none_pulls[r] = 1 => result[r] = [sample |-> None, events |-> Some(<< End >>)]
        /\ none_pulls[r] >= 2 => result[r] = NoResult
        /\ Cardinality({ k \in 1..Len(delivered[r]) : delivered[r][k].event = End }) <= 1

\* C7: the samples pulled until None are the concatenation of the chunks sent,
\* in send order (and before the end they are a prefix of it).
C7_RoundTrip ==
    \A r \in Requests :
        /\ Len(out[r]) <= Len(SentSamples(r))
        /\ out[r] = SubSeq(SentSamples(r), 1, Len(out[r]))
        /\ none_pulls[r] >= 1 => out[r] = SentSamples(r)

\* a stream of two chunks, one of them empty, has been pulled to its end
C7_Witness ==
    \E r \in Requests :
        /\ none_pulls[r] >= 1
        /\ Len(sent[r]) >= 2
        /\ \E k \in 1..Len(sent[r]) : sent[r][k].wav = << >>
        /\ Len(out[r]) >= 2

\* C8: every unit in a request's channel, and every unit its cursor received,
\* was produced by the espeak_Synth call of that same request.
C8_OwnOutputOnly ==
    \A r \in Requests :
        /\ recv_from[r] \subseteq {r}
        /\ \A k \in 1..Len(chan[r]) : chan[r][k].from = r

\* both cursors have received units while the callback was registered once for all
C8_Witness ==
    /\ \A r \in Requests : recv_from[r] = {r} /\ wpc[r] = "done"
    /\ registered = "synth_callback"

\* C9: a callback invocation returns 0 exactly when its send succeeds and 1
\* exactly when the Receiver has been dropped; after it returned 1 the engine
\* makes no further invocation and the worker, still holding the lock, is
\* free to go on to release it.
C9_AbortOnDrop ==
    /\ [][\A r \in Requests :
            /\ n_cb'[r] # n_cb[r] =>
                 /\ cb_ret'[r] \in {0, 1}
                 /\ cb_ret'[r] = 0 <=> sent'[r] # sent[r]
                 /\ cb_ret'[r] = 1 <=> ~rx_alive[r]
            /\ cb_ret[r] = 1 => n_cb'[r] = n_cb[r]]_vars
    /\ [](\A r \in Requests :
            (cb_ret[r] = 1 /\ lock_owner = Worker(r)) =>
                ENABLED (espeak_Synth_returns(r) \/ worker_unlock(r)))

\* the consumer dropped the stream, the next callback returned 1 and the
\* worker has released the lock
C9_Witness ==
    \E r \in Requests :
        /\ pc[r] = "dropped"
        /\ cb_ret[r] = 1 /\ n_cb[r] < Len(text[r])
        /\ wpc[r] = "done" /\ lock_owner = NoThread

C11_EveryStreamEnds ==
    \A r \in Requests :
        /\ wpc[r] = "done" => ~tx_alive[r]
        /\ (pc[r] = "recv" /\ wpc[r] = "done") => ENABLED next_recv(r)
        /\ none_pulls[r] = 1 => result[r].events = Some(<< End >>)
        /\ pc[r] # "panicked"

\* the worker has called espeak_Synth
SynthCalled(r) == wpc[r] \in {"in_Synth", "Synth_returned", "unlocked", "done"}

\* C12: a worker whose espeak_SetVoiceByName reported an error does not call
\* espeak_Synth.
C12_NoSynthAfterVoiceError ==
    \A r \in Requests : voice_ret[r] \notin {"none", "EE_OK"} => ~SynthCalled(r)

\* C13: a poisoned mutex is obtained like a clean one: a thread at a plock()
\* of init(), list_voices() or a worker takes the lock whenever it is free;
\* the lock is only ever held by a live thread inside its critical section;
\* and no thread panics but on the conversion of a voice record.
C13_PoisonTolerant ==
    /\ \A c \in Clients :
          /\ (pc[c] = "init" /\ lock_owner = NoThread) => ENABLED init_plock(c)
          /\ (pc[c] = "list_plock" /\ lock_owner = NoThread) => ENABLED list_voices_plock(c)
          /\ lock_owner = Client(c) => pc[c] \in ClientEngineSteps
          /\ pc[c] = "panicked" =>
                c \in Listers /\ convert_voices(voice_table).status = "panic"
    /\ \A r \in Requests :
          /\ (wpc[r] = "plock" /\ lock_owner = NoThread) => ENABLED worker_plock(r)
          /\ lock_owner = Worker(r) => wpc[r] \in WorkerEngineSteps

\* list_voices() panicked with the lock; since then one worker has finished
\* and the init() of the other request holds the lock
C13_Witness ==
    /\ poisoned
    /\ \E c \in Listers : pc[c] = "panicked"
    /\ \E r \in Requests, q \in Requests :
          /\ r # q
          /\ wpc[r] = "done" /\ n_cb[r] >= 1
          /\ lock_owner = Client(q) /\ pc[q] = "init_locked"

\* positions of a worker between its apply_params and the return of its
\* espeak_Synth
Configured == {"SetVoiceByName", "SetSynthCallback", "Synth", "in_Synth"}

\* C14: during a request's espeak_Synth every field it set to Some(v) has the
\* engine value v, and from a worker's apply_params to the return of its
\* espeak_Synth no step changes the engine's parameters, and none but its
\* own voice selection changes the engine's voice.
C14_OwnParametersDuringSynth ==
    /\ [](\A r \in Requests :
            wpc[r] = "in_Synth" =>
                \A f \in Fields :
                    IsSome(captured(r).params[f]) => param[f] = Unwrap(captured(r).params[f]))
    /\ [][\A r \in Requests :
            wpc[r] \in Configured =>
                /\ param' = param
                /\ voice' # voice => (wpc[r] = "SetVoiceByName" /\ wpc'[r] # wpc[r])]_vars

\* a request that set rate and pitch is inside espeak_Synth after a callback
\* while a request that left them unset waits for the lock
C14_Witness ==
    \E r \in Requests, q \in Requests :
        /\ r # q
        /\ wpc[r] = "in_Synth" /\ n_cb[r] >= 1
        /\ param["rate"] = 80 /\ param["pitch"] = 400
        /\ wpc[q] = "plock" /\ captured(q).params["rate"] = None

\* what the engine is given for a captured Parameter Set and voice name
Uses(c, r) ==
    /\ wpc[r] \in Configured \cup {"Synth_returned"} =>
          \A f \in Fields :
              param[f] = IF IsSome(c.params[f]) THEN Unwrap(c.params[f]) ELSE param_defaults[f]
    /\ wpc[r] \in (Configured \ {"SetVoiceByName"}) \cup {"Synth_returned"} =>
          IF voice_ret[r] = "EE_OK" THEN voice = c.voice_name_cstr
          ELSE c.voice_name_cstr \notin EngineVoices
    /\ wpc[r] \in {"in_Synth", "Synth_returned"} => flags = synth_flags(c.params)

\* C15: the closure's copy of the Parameter Set and of the voice name is never
\* changed once speak() has returned, whatever the caller does to its Speaker,
\* and the parameters, voice and SSML flag the worker gives the engine are
\* those of the copy.
C15_SpeakSnapshots ==
    /\ [](\A r \in Requests : closure[r] # None => Uses(Unwrap(closure[r]), r))
    /\ [][\A r \in Requests : closure[r] # None => closure'[r] = closure[r]]_vars

\* the caller has changed rate, SSML flag and voice of its Speaker before the
\* worker took the lock, and the worker is now inside espeak_Synth
C15_Witness ==
    \E r \in Requests :
        /\ wpc[r] = "in_Synth" /\ n_cb[r] >= 1
        /\ speaker[r].params.rate # Unwrap(closure[r]).params.rate
        /\ speaker[r].params.is_ssml # Unwrap(closure[r]).params.is_ssml
        /\ voice_name_cstr(speaker[r].voice_name) # Unwrap(closure[r]).voice_name_cstr
        /\ flags = {"espeakCHARS_AUTO"} /\ voice = "en" /\ param["rate"] = 175

\* the events and the samples of the items iter_audio_and_events returned
PairEvents(r) ==
    Flat([k \in 1..Len(pairs[r]) |->
             IF pairs[r][k].events = None THEN << >> ELSE Unwrap(pairs[r][k].events)])
PairSamples(r) == [k \in 1..Len(pairs[r]) |-> pairs[r][k].sample]

\* C16: when the pull that returns None has been made, the events attached to
\* the items of iter_audio_and_events are the events a with_callback handler
\* has received for the same stream, the final End included.
C16_SameEventsBothAdapters ==
    \A r \in Requests : none_pulls[r] = 1 => PairEvents(r) = handled[r]

\* C17: the samples with_callback returns and the sample components
\* iter_audio_and_events returns are, at every moment, the samples the plain
\* iterator returns: same values, same order, same count.
C17_AdaptersPassSamples ==
    \A r \in Requests : cb_out[r] = out[r] /\ PairSamples(r) = out[r]

\* a stream of several chunks has been pulled to its end, with samples that
\* carried events and samples that carried none
C17_Witness ==
    \E r \in Requests :
        /\ none_pulls[r] >= 1 /\ Len(sent[r]) >= 2 /\ Len(out[r]) >= 3
        /\ out[r] = SentSamples(r)
        /\ \E k \in 1..Len(pairs[r]) : pairs[r][k].events # None
        /\ \E k \in 1..Len(pairs[r]) : pairs[r][k].events = None

\* the SpeakerSource of request r has been constructed
Constructed(r) == closure[r] # None

ListEnded(c) == pc[c] \in {"done", "panicked", "crashed"}

\* C19: whatever the native voice table, list_voices() returns, with one Voice
\* per native record.
C19_ListVoicesTolerant ==
    \A c \in Listers :
        ListEnded(c) =>
            /\ pc[c] = "done"
            /\ listed[c] # None
            /\ Len(Unwrap(listed[c])) = Len(voice_table)

\* C20: for a table of well-formed records list_voices() returns, and the
\* languages of each Voice are: none for a null buffer; for a buffer packed
\* from a list of entries, a zero priority byte and any further bytes, exactly
\* the entries of the list, each with its priority and name, in buffer order.
C20_LanguagesParsed ==
    \A c \in Listers :
        (ListEnded(c) /\ \A k \in 1..Len(voice_table) : voice_table[k] \in WellFormedVoices) =>
            /\ pc[c] = "done"
            /\ listed[c] # None
            /\ Len(Unwrap(listed[c])) = Len(voice_table)
            /\ \A k \in 1..Len(voice_table) :
                  LET buffer == voice_table[k].languages
                      languages == Unwrap(listed[c])[k].languages
                  IN  /\ buffer = None => languages = << >>
                      /\ \A es \in LanguageLists, tail \in BufferTails :
                            buffer = Some(pack(es) \o << 0 >> \o tail) => languages = es

\* a buffer of two entries, the first with a name of one two-byte character,
\* followed by bytes after the terminator, has been parsed
C20_Witness ==
    \E c \in Listers :
        /\ pc[c] = "done"
        /\ Len(voice_table) = 1
        /\ voice_table[1].languages =
              Some(pack(<< Language(2, c_cedilla), Language(8, fr) >>) \o << 0, 7, 120, 0, 0 >>)
        /\ Unwrap(listed[c])[1].languages = << Language(2, c_cedilla), Language(8, fr) >>

\* the audio positions whose threshold the cursor of r computes: those of the
\* events pending in its queue and of the events it has handed out
Positions(r) ==
    { events[r][k].pos : k \in 1..Len(events[r]) }
    \cup { delivered[r][k].pos :
              k \in { j \in 1..Len(delivered[r]) : delivered[r][j].event.kind # "End" } }

\* C21: for every audio position of the stream, the 32-bit product
\* audio_position_ms * sample_rate does not overflow, and the threshold the
\* cursor compares with the sample index is floor(audio_position_ms *
\* sample_rate / 1000).
C21_ThresholdExact ==
    \A r \in Requests :
        \A pos \in Positions(r) :
            /\ ~mul_overflows(pos, sample_rate[r])
            /\ at_sample(pos, sample_rate[r]) = ExactPosition(pos, sample_rate[r])

\* the worker's calls under the lock in the order of the claim; a worker's
\* position names the call it makes next
ClaimedOrder ==
    << "plock", "SetVoiceByName", "SetSynthCallback", "apply_params", "Synth", "in_Synth" >>

\* C22: under the lock every worker first selects the voice, then registers
\* the callback, then applies the Parameter Set, then calls espeak_Synth: each
\* of these calls is followed by the next of the list, and the Parameter Set
\* is applied when the voice has been selected, with espeak_Synth as the
\* worker's next call.
C22_WorkerStepOrder ==
    [][\A r \in Requests :
          /\ \A k \in 1..(Len(ClaimedOrder) - 1) :
                (wpc[r] = ClaimedOrder[k] /\ wpc'[r] # wpc[r]) => wpc'[r] = ClaimedOrder[k + 1]
          /\ param' # param /\ lock_owner = Worker(r) =>
                (voice_ret[r] # "none" /\ wpc'[r] = "Synth")]_vars

\* the queue of pending events a pull of r scans when it completes in the
\* next step: the queue as it is, extended by the batch of the unit received
PendingAtScan(r) ==
    IF pc[r] = "recv" /\ chan[r] # << >> THEN events[r] \o Head(chan[r]).events ELSE events[r]

\* the length of the longest prefix of q whose thresholds are all <= i
DuePrefixLen(q, i, rate) ==
    CHOOSE n \in 0..Len(q) :
        /\ \A k \in 1..n : at_sample(q[k].pos, rate) <= i
        /\ n < Len(q) => at_sample(q[n + 1].pos, rate) > i

\* C23: a pull at index i that comes to scan the queue and returns a sample
\* returns, in queue order, exactly the longest prefix of the pending events
\* whose threshold is <= i (None when it is empty) and leaves the rest of the
\* queue as it was; the with_callback handler receives these events, one call
\* each, in that order, with the sample of the same pull.
C23_DuePrefixInOrder ==
    [][\A r \in Requests :
          out'[r] # out[r] =>
              LET i == Unwrap(iter_index[r])
                  q == PendingAtScan(r)
                  n == DuePrefixLen(q, i, sample_rate[r])
                  due == EventsOf(SubSeq(q, 1, n))
              IN  /\ result'[r].events = (IF n = 0 THEN None ELSE Some(due))
                  /\ events'[r] = SubSeq(q, n + 1, Len(q))
                  /\ handled'[r] = handled[r] \o due
                  /\ cb_out'[r] = cb_out[r] \o result'[r].sample]_vars

\* the first pull has returned three events due at the same position, in the
\* order the engine reported them, and has left a later event in the queue
C23_Witness ==
    \E r \in Requests :
        /\ Len(out[r]) = 1
        /\ result[r].events = Some(<< Start, Sentence(0), Word(0, 5) >>)
        /\ handled[r] = << Start, Sentence(0), Word(0, 5) >>
        /\ Len(events[r]) >= 1

\* C24: the cursor takes a unit from the channel only in a pull whose index
\* is >= the number of buffered samples, and a consumer waits in recv only
\* then; a pull whose index is buffered completes at once, without a receive.
C24_LazyReceive ==
    /\ [](\A r \in Requests : pc[r] = "recv" => Unwrap(iter_index[r]) >= Len(data[r]))
    /\ [][\A r \in Requests :
            /\ Len(chan'[r]) < Len(chan[r]) =>
                  (pc[r] = "recv" /\ Unwrap(iter_index[r]) >= Len(data[r]))
            /\ (pc[r] = "idle" /\ Unwrap(iter_index[r]) < Len(data[r]) /\ result'[r] # result[r]) =>
                  (pc'[r] # "recv" /\ chan'[r] = chan[r])]_vars

\* streaming starts before synthesis ends: the consumer has pulled every
\* sample of the first chunk while the worker is inside espeak_Synth, holding
\* the lock, with a delivery still to make and the channel open
C24_Witness ==
    \E r \in Requests :
        /\ wpc[r] = "in_Synth" /\ n_cb[r] = 1 /\ Len(text[r]) = 2
        /\ tx_alive[r]
        /\ out[r] = FirstChunk.wav
        /\ lock_owner = Worker(r)

\* C25: in every state the sample index of a cursor is the number of samples
\* it has returned and is <= the number of buffered samples; a pull that
\* returns a sample returns the buffered sample at the index and advances the
\* index by one; a step in which no sample is returned, the return of a pull
\* without a sample included, leaves the index and the buffered samples
\* unchanged.
C25_CursorIndex ==
    /\ [](\A r \in Requests :
            /\ iter_index[r] # None
            /\ Unwrap(iter_index[r]) = Len(out[r])
            /\ Unwrap(iter_index[r]) <= Len(data[r]))
    /\ [][\A r \in Requests :
            LET i == Unwrap(iter_index[r])
            IN  /\ out'[r] # out[r] =>
                      /\ i < Len(data'[r])
                      /\ result'[r].sample = Some(data'[r][i + 1])
                      /\ out'[r] = Append(out[r], data'[r][i + 1])
                      /\ iter_index'[r] = Some(i + 1)
                      /\ SubSeq(data'[r], 1, Len(data[r])) = data[r]
                /\ (out'[r] = out[r] /\ pc'[r] # "panicked") =>
                      /\ iter_index'[r] = iter_index[r]
                      /\ data'[r] = data[r]
                /\ none_pulls'[r] # none_pulls[r] => result'[r].sample = None]_vars

\* a stream of two deliveries with samples has been pulled to its end: the
\* index is the number of samples returned and of samples buffered, and the
\* pull that returned no sample has left it there
C25_Witness ==
    \E r \in Requests :
        /\ none_pulls[r] >= 1 /\ result[r].sample = None
        /\ Len(sent[r]) = 2 /\ \A k \in 1..2 : sent[r][k].wav # << >>
        /\ iter_index[r] = Some(Len(out[r]))
        /\ Len(out[r]) = Len(data[r]) /\ Len(out[r]) >= 3

\* the events of a native list before its first terminator that are of a
\* kind the callback keeps
UpToTerminator(evs) ==
    SubSeq(evs, 1, (CHOOSE k \in 1..(Len(evs) + 1) :
                       /\ k <= Len(evs) => evs[k].type = "LIST_TERMINATED"
                       /\ \A j \in 1..(k - 1) : evs[j].type # "LIST_TERMINATED") - 1)
IsKept(e) == e.type \in {"SAMPLERATE", "WORD", "SENTENCE"}
Kept(evs) == SelectSeq(UpToTerminator(evs), IsKept)

\* the event the claim gives for a kept native event
ClaimedEvent(e) ==
    IF e.type = "SAMPLERATE" THEN Start
    ELSE IF e.type = "WORD" THEN Word(e.text_position - 1, e.length)
    ELSE Sentence(e.text_position - 1)

\* the same with a text position of 0 left at 0
ZeroBased(text_position) == IF text_position = 0 THEN 0 ELSE text_position - 1
AmendedEvent(e) ==
    IF e.type = "SAMPLERATE" THEN Start
    ELSE IF e.type = "WORD" THEN Word(ZeroBased(e.text_position), e.length)
    ELSE Sentence(ZeroBased(e.text_position))

\* the unit of the k-th callback invocation of r, given the event of each
\* kept native event
UnitOf(r, k, EventOf(_)) ==
    LET d == text[r][k]
        kept == Kept(d.events)
    IN  [wav |-> IF d.wav_null THEN << >> ELSE d.wav,
         events |-> [j \in 1..Len(kept) |->
                        [pos |-> kept[j].audio_position, event |-> EventOf(kept[j])]],
         from |-> r]

CallSteps == {"init", "init_locked", "spawn", "list_plock", "list_locked"}

\* C27: whatever the consumers do, every speak() and list_voices() call
\* eventually ends, every worker eventually releases the lock and terminates,
\* and the lock ends up free; a worker inside espeak_Synth with a delivery to
\* make can always make it (the send does not wait for the consumer); and at
\* most one worker is inside espeak_Synth at a time.
C27_NoDeadlock ==
    /\ \A c \in Clients : <>(pc[c] \notin CallSteps)
    /\ \A r \in Requests : <>[](wpc[r] = "done")
    /\ <>[](lock_owner = NoThread)
    /\ [](\A r \in Requests :
            (wpc[r] = "in_Synth" /\ n_cb[r] < Len(text[r]) /\ cb_ret[r] # 1) =>
                ENABLED synth_callback(r))
    /\ [](Cardinality({ r \in Requests : wpc[r] = "in_Synth" }) <= 1)

\* both speak() calls have returned and both workers have finished while no
\* stream has been pulled or dropped: the units wait in the channels
C27_Witness ==
    /\ \A r \in Requests :
          /\ wpc[r] = "done" /\ pc[r] = "idle"
          /\ out[r] = << >> /\ none_pulls[r] = 0
          /\ Len(chan[r]) = Len(text[r])
    /\ \A c \in Listers : pc[c] \notin CallSteps
    /\ lock_owner = NoThread

====
